---- MODULE Spec2Model ----
(***************************************************************************)
(* Contact-management backend: users, refresh-token rows, contacts, the    *)
(* Redis user cache and the HTTP handlers of src/src/routers.              *)
(*                                                                         *)
(* A JWT is modelled by what jose's HS256 encoding is a function of: the   *)
(* payload (sub, iat, exp and, for access/refresh tokens, scope) and the   *)
(* signing key.  Two tokens with the same payload and key are the same     *)
(* string.  datetime values are encoded as whole seconds.                  *)
(***************************************************************************)
EXTENDS Integers, FiniteSets, Sequences, TLC

VARIABLES
    users,          \* table "users": set of rows
    tokens,         \* table "tokens": set of rows
    contacts,       \* table "contacts": set of rows
    nextContactId,  \* serial of contacts.id
    cache,          \* Redis db 0: username -> entry or None
    now,            \* wall clock, whole seconds
    resp,           \* response of the last request served
    rotated,        \* history: a refresh token that a successful refresh_token call presented
    admitted,       \* history: when a route last let a request of a client reach its handler
    verified,       \* history: the usernames a GET reset_password/{token} has answered with its redirect
    req             \* requests in flight (stepwise handlers)

vars == <<users, tokens, contacts, nextContactId, cache, now, resp, rotated, admitted, verified, req>>

-----------------------------------------------------------------------------
(* Bounds and sample inputs *)

MaxSec == 1
MaxContacts == 2
NumReq == 2

Usernames == {"a@ex.com", "b@ex.com"}
Passwords == {"qaz12EDC", "wrong_password"}
Requests == 1..NumReq
FirstUser == "a@ex.com"
FirstPassword == "qaz12EDC"
Stranger == "ghost@ex.com"
CacheKeys == Usernames \cup {Stranger}
Clients == {"10.0.0.1", "10.0.0.2"}
FirstClient == "10.0.0.1"

(* Program constants *)
ACCESS_TTL == 604800
REFRESH_TTL == 900
EMAIL_TTL == 604800
CACHE_TTL == 300

SECRET_KEY == "SECRET_KEY_JWT"
OTHER_KEY == "not-the-server-key"
DEFAULT_AVATAR == "http://127.0.0.1:8000/api/users/default_avatar"

None == [null |-> TRUE]

(* fastapi-limiter: Depends(RateLimiter(times=1, seconds=20)) *)
RATE_TIMES == 1
RATE_SECONDS == 20

(* the key of the limiter's counter: the client's address and the path *)
LimiterKey(client, path) == "fastapi-limiter:" \o client \o ":" \o path

(* Redis db 0 holds the user cache and the limiter's counters *)
RedisKeys == CacheKeys \cup {LimiterKey(c, "/api/auth/login") : c \in Clients}

(* the routes whose definition names a RateLimiter(times=1, seconds=20) *)
LimitedRoutes == {"signup", "login", "reset_password"}
NEVER == -1
MultipleResultsFound == [raised |-> "MultipleResultsFound"]

(* Instants the clock is observed at: the first seconds after the start,   *)
(* after the life of a refresh token (a cache entry is gone by then) and   *)
(* after the life of an access token.                                      *)
Epochs == {0, REFRESH_TTL, ACCESS_TTL}
Times == {e + s : e \in Epochs, s \in 0..MaxSec}
RefreshTimes == {e + s : e \in {0, REFRESH_TTL}, s \in 0..MaxSec}
(* the start, the last second of the limiter's window and its end *)
LimiterTimes == {0, RATE_SECONDS - 1, RATE_SECONDS}

-----------------------------------------------------------------------------
(* services/auth.py: passwords and tokens *)

get_password_hash(password) == [bcrypt |-> password]

verify_password(plain_password, hashed_password) ==
    hashed_password = get_password_hash(plain_password)

jwt_encode(payload, key) == [payload |-> payload, key |-> key]

create_access_token(username, t) ==
    jwt_encode([sub |-> username, iat |-> t, exp |-> t + ACCESS_TTL,
                scope |-> "access_token"], SECRET_KEY)

create_refresh_token(username, t) ==
    jwt_encode([sub |-> username, iat |-> t, exp |-> t + REFRESH_TTL,
                scope |-> "refresh_token"], SECRET_KEY)

create_email_token(username, t) ==
    jwt_encode([sub |-> username, iat |-> t, exp |-> t + EMAIL_TTL], SECRET_KEY)

(* jose.jwt.decode: JWTError on a bad signature or an expired token *)
JWTError(token, t) ==
    \/ token.key # SECRET_KEY
    \/ token.payload.exp < t

-----------------------------------------------------------------------------
(* repositories/users.py *)

scalar_one_or_none(rows) ==
    IF rows = {} THEN None
    ELSE IF Cardinality(rows) = 1 THEN CHOOSE r \in rows : TRUE
    ELSE MultipleResultsFound

get_user_by_username_by_id(username) ==
    scalar_one_or_none({u \in users : u.avatar = username})

get_user_by_username(username) ==
    scalar_one_or_none({u \in users : u.username = username})

NewUserId == Cardinality(users) + 1

create_user_confirmed(username, hashed) ==
    [id |-> NewUserId, username |-> username, password |-> hashed,
     confirmed |-> TRUE, avatar |-> DEFAULT_AVATAR]

create_user(username, hashed) ==
    [id |-> NewUserId, username |-> username, password |-> hashed,
     confirmed |-> FALSE, avatar |-> DEFAULT_AVATAR]

TokenRowsOf(tbl, user) == {t \in tbl : t.user_id = user.id}

NewTokenId(tbl) == Cardinality(tbl) + 1

(* update_token: whether scalar_one_or_none raised, and the table after   *)
(* the commit                                                              *)
update_token(tbl, user, refresh_token) ==
    LET token == scalar_one_or_none(TokenRowsOf(tbl, user)) IN
    IF token = MultipleResultsFound THEN [raised |-> TRUE, tokens |-> tbl]
    ELSE IF token # None
    THEN [raised |-> FALSE,
          tokens |-> (tbl \ {token}) \cup {[token EXCEPT !.refresh_token = refresh_token]}]
    ELSE [raised |-> FALSE,
          tokens |-> tbl \cup {[id |-> NewTokenId(tbl), refresh_token |-> refresh_token,
                                user_id |-> user.id]}]

get_refresh_token(tbl, user) == scalar_one_or_none(TokenRowsOf(tbl, user))

-----------------------------------------------------------------------------
(* What a client can put in a request.                                     *)

Past == {i \in Times : i <= now}

(* Tokens the server has had occasion to hand to the holder of an account: *)
(* mail tokens (signup, forgot_password) once the account exists, access   *)
(* and refresh tokens once a login of the account has stored a token row.  *)
AccountTokens ==
    UNION { {create_email_token(u.username, i) : i \in Past}
            \cup (IF u.confirmed /\ TokenRowsOf(tokens, u) # {}
                  THEN {create_access_token(u.username, i) : i \in Past}
                       \cup {create_refresh_token(u.username, i) : i \in Past}
                  ELSE {}) : u \in users }

(* Login tokens of an account of another database served with the same key *)
StrangerTokens ==
    {create_access_token(Stranger, 0), create_refresh_token(Stranger, 0)}

(* Tokens signed with another key, as a client without the secret makes *)
ForgedTokens ==
    { jwt_encode([sub |-> FirstUser, iat |-> 0, exp |-> ACCESS_TTL, scope |-> s], OTHER_KEY) :
        s \in {"access_token", "refresh_token"} }

Presentable == AccountTokens \cup StrangerTokens \cup ForgedTokens

-----------------------------------------------------------------------------
(* Responses *)

Response(op, status, detail, body) ==
    [op |-> op, status |-> status, detail |-> detail, body |-> body,
     background |-> {}, request |-> None]

(* what a served contact request was: the subject of its bearer token,    *)
(* the user get_current_user resolved and the contact id of its path       *)
Request(token, user, contact_id) ==
    [sub |-> token.payload.sub, user_id |-> user.id, contact_id |-> contact_id]

(* background_tasks.add_task(email_service.send_verification_mail, username, ...) *)
send_verification_mail(username) ==
    [task |-> "send_verification_mail", username |-> username]

TokenSchema(access, refresh) ==
    [access_token |-> access, refresh_token |-> refresh, token_type |-> "bearer"]

UserReadSchema(user) ==
    [id |-> user.id, username |-> user.username, password |-> user.password,
     avatar |-> user.avatar]

-----------------------------------------------------------------------------
(* a request slot that holds no request *)
Idle == [pc |-> "idle"]

Init ==
    /\ users = {}
    /\ tokens = {}
    /\ contacts = {}
    /\ nextContactId = 1
    /\ cache = [k \in RedisKeys |-> None]
    /\ now = 0
    /\ resp = Response("startup", 0, "", None)
    /\ rotated = {}
    /\ admitted = [k \in Clients \X LimitedRoutes |-> NEVER]
    /\ verified = {}
    /\ req = [r \in Requests |-> Idle]

-----------------------------------------------------------------------------
(* routers/auth.py, each handler served in one step *)

(* signup: its effect on the users table and its response *)
signup_route(username, password) ==
    LET exist_user == get_user_by_username(username) IN
       IF exist_user = MultipleResultsFound
       THEN /\ resp' = Response("signup", 500, "Internal Server Error", None)
            /\ UNCHANGED users
       ELSE IF exist_user # None
       THEN /\ resp' = Response("signup", 409, "Account already exists", None)
            /\ UNCHANGED users
       ELSE LET new_user == create_user(username, get_password_hash(password)) IN
            /\ users' = users \cup {new_user}
            /\ resp' = [Response("signup", 201, "", UserReadSchema(new_user))
                         EXCEPT !.background = {send_verification_mail(new_user.username)}]

Signup(username, password) ==
    /\ signup_route(username, password)
    /\ UNCHANGED <<tokens, contacts, nextContactId, cache, now, rotated, admitted, verified, req>>

login_checks_no_confirmed(user, password) ==
    IF user = None THEN "Invalid username"
    ELSE IF ~verify_password(password, user.password) THEN "Invalid password"
    ELSE ""

login_checks_no_password(user, password) ==
    IF user = None THEN "Invalid username"
    ELSE IF ~user.confirmed THEN "Email not confirmed"
    ELSE ""

(* login, lines 92-103: the HTTPException raised, or "" when none is *)
login_checks(user, password) ==
    IF user = None THEN "Invalid username"
    ELSE IF ~user.confirmed THEN "Email not confirmed"
    ELSE IF ~verify_password(password, user.password) THEN "Invalid password"
    ELSE ""

(* login: its effect on the tokens table and its response *)
login_route(username, password) ==
    LET user == get_user_by_username(username) IN
       IF user = MultipleResultsFound
       THEN /\ resp' = Response("login", 500, "Internal Server Error", None)
            /\ UNCHANGED tokens
       ELSE IF login_checks(user, password) # ""
       THEN /\ resp' = Response("login", 401, login_checks(user, password), None)
            /\ UNCHANGED tokens
       ELSE LET access_token == create_access_token(user.username, now)
                refresh_token == create_refresh_token(user.username, now)
                updated == update_token(tokens, user, refresh_token)
            IN IF updated.raised
               THEN /\ resp' = Response("login", 500, "Internal Server Error", None)
                    /\ UNCHANGED tokens
               ELSE /\ tokens' = updated.tokens
                    /\ resp' = Response("login", 200, "",
                                        TokenSchema(access_token, refresh_token))

Login(username, password) ==
    /\ login_route(username, password)
    /\ UNCHANGED <<users, contacts, nextContactId, cache, now, rotated, admitted, verified, req>>

(* decode_refresh_token: the subject, or the error it raises.  A payload   *)
(* without "scope" raises KeyError, which is no JWTError and no            *)
(* HTTPException: the request ends 500.                                    *)
decode_refresh_token(token, t) ==
    IF JWTError(token, t)
    THEN [ok |-> FALSE, status |-> 401, detail |-> "Could not validate credentials"]
    ELSE IF "scope" \notin DOMAIN token.payload
    THEN [ok |-> FALSE, status |-> 500, detail |-> "Internal Server Error"]
    ELSE IF token.payload.scope = "refresh_token"
    THEN [ok |-> TRUE, username |-> token.payload.sub]
    ELSE [ok |-> FALSE, status |-> 401, detail |-> "Invalid scope for token"]

(* routers/auth.py refresh_token: its effect on the tokens table and its response *)
refresh_token_route(token) ==
    LET decoded == decode_refresh_token(token, now) IN
       IF ~decoded.ok
       THEN /\ resp' = Response("refresh_token", decoded.status, decoded.detail, None)
            /\ UNCHANGED tokens
       ELSE
       LET user == get_user_by_username(decoded.username)
           row  == IF user \in {None, MultipleResultsFound} THEN None
                   ELSE get_refresh_token(tokens, user)
       IN
       IF user \in {None, MultipleResultsFound} \/ row \in {None, MultipleResultsFound}
       THEN /\ resp' = Response("refresh_token", 500, "Internal Server Error", None)
            /\ UNCHANGED tokens
       ELSE IF row.refresh_token # token
       THEN /\ tokens' = update_token(tokens, user, None).tokens
            /\ resp' = Response("refresh_token", 401, "Invalid refresh token", None)
       ELSE LET access_token == create_access_token(user.username, now)
                refresh_token == create_refresh_token(user.username, now)
            IN /\ tokens' = update_token(tokens, user, refresh_token).tokens
               /\ resp' = Response("refresh_token", 200, "",
                                   TokenSchema(access_token, refresh_token))

RefreshToken(token) ==
    /\ refresh_token_route(token)
    /\ UNCHANGED <<users, contacts, nextContactId, cache, now, rotated, admitted, verified, req>>

(* get_email_from_token *)
get_email_from_token(token, t) ==
    IF JWTError(token, t)
    THEN [ok |-> FALSE, status |-> 422, detail |-> "Invalid token for email verification"]
    ELSE [ok |-> TRUE, email |-> token.payload.sub]

confirmed_email_skipped(email) == users

(* repositories/users.py confirmed_email: the users table after the update *)
confirmed_email(email) ==
    {IF u.username = email THEN [u EXCEPT !.confirmed = TRUE] ELSE u : u \in users}

(* the answer to a request whose token named the email *)
Confirmation(email, status, detail) ==
    [Response("confirmed_email", status, detail, None) EXCEPT !.request = [email |-> email]]

ConfirmedEmail(token) ==
    LET decoded == get_email_from_token(token, now) IN
    /\ IF ~decoded.ok
       THEN /\ resp' = Response("confirmed_email", decoded.status, decoded.detail, None)
            /\ UNCHANGED users
       ELSE
       LET user == get_user_by_username(decoded.email) IN
       IF user = MultipleResultsFound
       THEN /\ resp' = Confirmation(decoded.email, 500, "Internal Server Error")
            /\ UNCHANGED users
       ELSE IF user = None
       THEN /\ resp' = Confirmation(decoded.email, 400, "Verification error")
            /\ UNCHANGED users
       ELSE IF user.confirmed
       THEN /\ resp' = Confirmation(decoded.email, 200, "Your email is already confirmed")
            /\ UNCHANGED users
       ELSE /\ users' = confirmed_email(decoded.email)
            /\ resp' = Confirmation(decoded.email, 200, "Email confirmed")
    /\ UNCHANGED <<tokens, contacts, nextContactId, cache, now, rotated, admitted, verified, req>>

(* The clock advances; Redis drops the keys whose time-to-live has run out *)
Expired(entry, t) == entry # None /\ entry.exp >= 0 /\ entry.exp <= t

TickTo(instants) ==
    /\ \E t \in instants :
         /\ t > now
         /\ now' = t
         /\ cache' = [k \in RedisKeys |-> IF Expired(cache[k], t) THEN None ELSE cache[k]]
    /\ UNCHANGED <<users, tokens, contacts, nextContactId, resp, rotated, admitted, verified, req>>

(* the clock observed around the expiry of a refresh token only *)
TickRefresh == TickTo(RefreshTimes)

Tick == TickTo(Times)

-----------------------------------------------------------------------------
Next ==
    \/ \E u \in Usernames, p \in Passwords : Signup(u, p)
    \/ \E u \in Usernames, p \in Passwords : Login(u, p)
    \/ \E t \in Presentable : RefreshToken(t)
    \/ \E t \in Presentable : ConfirmedEmail(t)
    \/ TickRefresh

Spec == Init /\ [][Next]_vars

-----------------------------------------------------------------------------
(* The same handlers with the history of rotations recorded: a successful  *)
(* refresh_token call may be remembered as the rotation of its token.      *)

RefreshTokenRecorded(token) ==
    /\ rotated = {}
    /\ refresh_token_route(token)
    /\ resp'.status = 200
    /\ rotated' = {token}
    /\ UNCHANGED <<users, contacts, nextContactId, cache, now, admitted, verified, req>>

NextRotation ==
    \/ \E u \in Usernames, p \in Passwords : Signup(u, p)
    \/ \E u \in Usernames, p \in Passwords : Login(u, p)
    \/ \E t \in Presentable : RefreshToken(t)
    \/ \E t \in Presentable : RefreshTokenRecorded(t)
    \/ \E t \in Presentable : ConfirmedEmail(t)
    \/ TickRefresh

SpecRotation == Init /\ [][NextRotation]_vars

-----------------------------------------------------------------------------
(* services/auth.py get_current_user: the dependency of every protected    *)
(* endpoint.  A payload without "scope" raises KeyError (500).  On a cache *)
(* miss the user row is read, pickled into the cache and given its expiry. *)

credentials_exception ==
    [ok |-> FALSE, status |-> 401, detail |-> "Could not validate credentials"]

(* what Redis reports as the time-to-live of a key that has none *)
NO_EXPIRY == -1

(* cache.set(key, pickle.dumps(user)): SET stores a copy of the record and *)
(* discards the time-to-live the key had                                   *)
cache_set(c, key, user) ==
    [c EXCEPT ![key] = [user |-> user, exp |-> NO_EXPIRY]]

(* cache.expire(key, time): EXPIRE, which does nothing to a missing key *)
cache_expire(c, key, time) ==
    IF c[key] = None THEN c ELSE [c EXCEPT ![key].exp = now + time]

cache_write_skipped(c, key, user) == c

(* cache.set(key, pickle.dumps(user)); cache.expire(key, 300), the two     *)
(* commands run one after the other                                        *)
cache_write(c, key, user) ==
    cache_expire(cache_set(c, key, user), key, CACHE_TTL)

get_current_user(token) ==
    IF JWTError(token, now) THEN credentials_exception
    ELSE IF "scope" \notin DOMAIN token.payload
    THEN [ok |-> FALSE, status |-> 500, detail |-> "Internal Server Error"]
    ELSE IF token.payload.scope # "access_token" THEN credentials_exception
    ELSE LET username == token.payload.sub IN
         IF cache[username] # None
         THEN [ok |-> TRUE, user |-> cache[username].user, cache |-> cache]
         ELSE LET user == get_user_by_username(username) IN
              IF user = MultipleResultsFound
              THEN [ok |-> FALSE, status |-> 500, detail |-> "Internal Server Error"]
              ELSE IF user = None THEN credentials_exception
              ELSE [ok |-> TRUE, user |-> user,
                    cache |-> cache_write(cache, username, user)]

-----------------------------------------------------------------------------
(* repositories/contacts.py.  Text columns are sequences of characters.    *)

Min(a, b) == IF a < b THEN a ELSE b

LowerChar(c) ==
    IF c = "A" THEN "a" ELSE IF c = "B" THEN "b" ELSE IF c = "L" THEN "l"
    ELSE IF c = "N" THEN "n" ELSE c

LOWER(str) == [i \in 1..Len(str) |-> LowerChar(str[i])]

(* SQL LIKE: % matches any run of characters, _ any one character *)
RECURSIVE LIKE(_, _)
LIKE(str, pattern) ==
    IF pattern = <<>> THEN str = <<>>
    ELSE IF Head(pattern) = "%"
    THEN LIKE(str, Tail(pattern)) \/ (str # <<>> /\ LIKE(Tail(str), pattern))
    ELSE /\ str # <<>>
         /\ Head(pattern) = "_" \/ Head(pattern) = Head(str)
         /\ LIKE(Tail(str), Tail(pattern))

(* rows in the order of their primary key *)
RECURSIVE ById(_)
ById(rows) ==
    IF rows = {} THEN <<>>
    ELSE LET first == CHOOSE r \in rows : \A q \in rows : r.id <= q.id
         IN <<first>> \o ById(rows \ {first})

OffsetLimit(rows, offset, limit) ==
    SubSeq(ById(rows), offset + 1, Min(Len(ById(rows)), offset + limit))

Range(seq) == {seq[i] : i \in 1..Len(seq)}

filter_by_user_any(tbl, user) == tbl

(* .filter_by(user=user): WHERE contacts.user_id = :user_id *)
filter_by_user(tbl, user) == {c \in tbl : c.user_id = user.id}

get_all(limit, offset, user) ==
    OffsetLimit(filter_by_user(contacts, user), offset, limit)

ContactModel_no_user(id, body, user) ==
    [id |-> id, name |-> body.name, surname |-> body.surname, email |-> body.email,
     phone |-> body.phone, birthday |-> body.birthday, notes |-> body.notes,
     is_favorite |-> body.is_favorite, user_id |-> 0]

ContactModel(id, body, user) ==
    [id |-> id, name |-> body.name, surname |-> body.surname, email |-> body.email,
     phone |-> body.phone, birthday |-> body.birthday, notes |-> body.notes,
     is_favorite |-> body.is_favorite, user_id |-> user.id]

get_by_id(contact_id, user) ==
    scalar_one_or_none({c \in filter_by_user(contacts, user) : c.id = contact_id})

(* update and delete: the row returned (None when the SELECT finds none), *)
(* the table after the commit, and the session calls made                  *)
update_any_user(contact_id, body, user) ==
    LET contact == scalar_one_or_none({c \in contacts : c.id = contact_id})
        updated == [contact EXCEPT !.name = body.name, !.surname = body.surname,
                                   !.email = body.email, !.phone = body.phone,
                                   !.birthday = body.birthday, !.notes = body.notes,
                                   !.is_favorite = body.is_favorite]
    IN IF contact = None
       THEN [contact |-> None, contacts |-> contacts, commit |-> 0, refresh |-> 0]
       ELSE [contact |-> updated, contacts |-> (contacts \ {contact}) \cup {updated},
             commit |-> 1, refresh |-> 1]

update_keeps_notes(contact_id, body, user) ==
    LET contact == scalar_one_or_none({c \in filter_by_user(contacts, user) :
                                         c.id = contact_id})
        updated == [contact EXCEPT !.name = body.name, !.surname = body.surname,
                                   !.email = body.email, !.phone = body.phone,
                                   !.birthday = body.birthday,
                                   !.is_favorite = body.is_favorite]
    IN IF contact = None
       THEN [contact |-> None, contacts |-> contacts, commit |-> 0, refresh |-> 0]
       ELSE [contact |-> updated, contacts |-> (contacts \ {contact}) \cup {updated},
             commit |-> 1, refresh |-> 1]

update(contact_id, body, user) ==
    LET contact == scalar_one_or_none({c \in filter_by_user(contacts, user) :
                                         c.id = contact_id})
        updated == [contact EXCEPT !.name = body.name, !.surname = body.surname,
                                   !.email = body.email, !.phone = body.phone,
                                   !.birthday = body.birthday, !.notes = body.notes,
                                   !.is_favorite = body.is_favorite]
    IN IF contact = None
       THEN [contact |-> None, contacts |-> contacts, commit |-> 0, refresh |-> 0]
       ELSE [contact |-> updated, contacts |-> (contacts \ {contact}) \cup {updated},
             commit |-> 1, refresh |-> 1]

delete_all_of_user(contact_id, user) ==
    LET contact == scalar_one_or_none({c \in filter_by_user(contacts, user) :
                                         c.id = contact_id})
    IN IF contact = None
       THEN [contact |-> None, contacts |-> contacts, delete |-> 0, commit |-> 0]
       ELSE [contact |-> contact, contacts |-> contacts \ filter_by_user(contacts, user),
             delete |-> 1, commit |-> 1]

delete(contact_id, user) ==
    LET contact == scalar_one_or_none({c \in filter_by_user(contacts, user) :
                                         c.id = contact_id})
    IN IF contact = None
       THEN [contact |-> None, contacts |-> contacts, delete |-> 0, commit |-> 0]
       ELSE [contact |-> contact, contacts |-> contacts \ {contact},
             delete |-> 1, commit |-> 1]

get_by_name(key_name, user) ==
    {c \in filter_by_user(contacts, user) :
        LIKE(LOWER(c.name), LOWER(<<"%">> \o key_name \o <<"%">>))}

get_by_surname(key_surname, user) ==
    {c \in filter_by_user(contacts, user) :
        LIKE(LOWER(c.surname), LOWER(<<"%">> \o key_surname \o <<"%">>))}

get_by_email(key_email, user) ==
    {c \in filter_by_user(contacts, user) :
        LIKE(LOWER(c.email), LOWER(<<"%">> \o key_email \o <<"%">>))}

(* services/contact.py find_contacts: the union of the three searches *)
find_contacts(key_word, user) ==
    get_by_name(key_word, user) \cup get_by_surname(key_word, user)
        \cup get_by_email(key_word, user)

(* dates are day numbers; today is the day of the clock *)
SECONDS_PER_DAY == 86400
today == now \div SECONDS_PER_DAY
UPCOMING_DAYS == 7

(* the calendar of the dates: years of 365 days, leap days left out; the  *)
(* day of the year stands for the month and the day of a date              *)
DAYS_PER_YEAR == 365
YearDay(date) == date % DAYS_PER_YEAR

get_upcoming_birthday(limit, offset, user) ==
    OffsetLimit({c \in filter_by_user(contacts, user) :
                    today <= c.birthday /\ c.birthday <= today + UPCOMING_DAYS},
                offset, limit)

-----------------------------------------------------------------------------
(* Sample request data of the contact endpoints *)

(* The first contact was born a year before the start of the clock and   *)
(* has its birthday three days after it; the second carries a date of     *)
(* birth three days after the start of the clock.                         *)
ContactBodies ==
    { [name |-> <<"A", "n">>, surname |-> <<"L", "i">>, email |-> <<"a", "@", "x">>,
       phone |-> "111", birthday |-> 3 - DAYS_PER_YEAR, notes |-> "first",
       is_favorite |-> FALSE],
      [name |-> <<"B", "o">>, surname |-> <<"a", "N">>, email |-> <<"b", "@", "x">>,
       phone |-> "222", birthday |-> 3, notes |-> "second", is_favorite |-> TRUE] }

(* a key word in two fields, one in none, and one holding the character _ *)
KeyWords == { <<"a", "n">>, <<"z">>, <<"_", "x">> }
Limits == {10}
Offsets == {0, 1}
ContactIds == 1..(MaxContacts + 1)

-----------------------------------------------------------------------------
(* routers/contacts_items.py, each handler served in one step.  A request  *)
(* that get_current_user rejects ends with its error and changes nothing.  *)

Rejected(op, cu) ==
    /\ resp' = Response(op, cu.status, cu.detail, None)
    /\ UNCHANGED <<contacts, nextContactId, cache>>

GetAllContacts(token, limit, offset) ==
    LET cu == get_current_user(token) IN
    /\ IF ~cu.ok THEN Rejected("get_all_contacts", cu)
       ELSE /\ resp' = [Response("get_all_contacts", 200, "", get_all(limit, offset, cu.user))
                         EXCEPT !.request = Request(token, cu.user, 0)]
            /\ cache' = cu.cache
            /\ UNCHANGED <<contacts, nextContactId>>
    /\ UNCHANGED <<users, tokens, now, rotated, admitted, verified, req>>

GetContactById(token, contact_id) ==
    LET cu == get_current_user(token) IN
    /\ IF ~cu.ok THEN Rejected("get_contact_by_id", cu)
       ELSE LET contact == get_by_id(contact_id, cu.user) IN
            /\ resp' = [(IF contact = None
                         THEN Response("get_contact_by_id", 404, "Not found", None)
                         ELSE Response("get_contact_by_id", 200, "", contact))
                        EXCEPT !.request = Request(token, cu.user, contact_id)]
            /\ cache' = cu.cache
            /\ UNCHANGED <<contacts, nextContactId>>
    /\ UNCHANGED <<users, tokens, now, rotated, admitted, verified, req>>

FindContacts(token, key_word) ==
    LET cu == get_current_user(token) IN
    /\ IF ~cu.ok THEN Rejected("find_contacts", cu)
       ELSE /\ resp' = [Response("find_contacts", 200, "", find_contacts(key_word, cu.user))
                         EXCEPT !.request = Request(token, cu.user, 0)]
            /\ cache' = cu.cache
            /\ UNCHANGED <<contacts, nextContactId>>
    /\ UNCHANGED <<users, tokens, now, rotated, admitted, verified, req>>

CreateContact(token, body) ==
    LET cu == get_current_user(token) IN
    /\ nextContactId <= MaxContacts
    /\ IF ~cu.ok THEN Rejected("create_contact", cu)
       ELSE LET contact == ContactModel(nextContactId, body, cu.user) IN
            /\ contacts' = contacts \cup {contact}
            /\ nextContactId' = nextContactId + 1
            /\ resp' = [Response("create_contact", 201, "", contact)
                         EXCEPT !.request = Request(token, cu.user, 0)]
            /\ cache' = cu.cache
    /\ UNCHANGED <<users, tokens, now, rotated, admitted, verified, req>>

UpdateContact(token, contact_id, body) ==
    LET cu == get_current_user(token) IN
    /\ IF ~cu.ok THEN Rejected("update_contact", cu)
       ELSE LET done == update(contact_id, body, cu.user) IN
            /\ contacts' = done.contacts
            /\ resp' = [(IF done.contact = None
                         THEN Response("update_contact", 404, "Not found", None)
                         ELSE Response("update_contact", 200, "", done.contact))
                        EXCEPT !.request = Request(token, cu.user, contact_id)
                                            @@ [body |-> body]]
            /\ cache' = cu.cache
            /\ UNCHANGED nextContactId
    /\ UNCHANGED <<users, tokens, now, rotated, admitted, verified, req>>

(* delete_contact returns what the repository returns, found or not: 204 *)
DeleteContact(token, contact_id) ==
    LET cu == get_current_user(token) IN
    /\ IF ~cu.ok THEN Rejected("delete_contact", cu)
       ELSE LET done == delete(contact_id, cu.user) IN
            /\ contacts' = done.contacts
            /\ resp' = [Response("delete_contact", 204, "", done.contact)
                         EXCEPT !.request = Request(token, cu.user, contact_id)]
            /\ cache' = cu.cache
            /\ UNCHANGED nextContactId
    /\ UNCHANGED <<users, tokens, now, rotated, admitted, verified, req>>

UpcomingBirthday(token, limit, offset) ==
    LET cu == get_current_user(token) IN
    /\ IF ~cu.ok THEN Rejected("upcoming_birthday", cu)
       ELSE /\ resp' = [Response("upcoming_birthday", 200, "",
                                 get_upcoming_birthday(limit, offset, cu.user))
                         EXCEPT !.request = Request(token, cu.user, 0)]
            /\ cache' = cu.cache
            /\ UNCHANGED <<contacts, nextContactId>>
    /\ UNCHANGED <<users, tokens, now, rotated, admitted, verified, req>>

(* The bearer tokens sent to the contact endpoints: access tokens and       *)
(* forgeries.  Tokens of the other scopes are sent under SpecBearer.        *)
Bearers ==
    {t \in Presentable :
        t.key = SECRET_KEY =>
            "scope" \in DOMAIN t.payload /\ t.payload.scope = "access_token"}

NextContacts ==
    \/ \E u \in Usernames : Signup(u, FirstPassword)
    \/ \E t \in Presentable : ConfirmedEmail(t)
    \/ \E u \in Usernames : Login(u, FirstPassword)
    \/ \E t \in Bearers, l \in Limits, o \in Offsets : GetAllContacts(t, l, o)
    \/ \E t \in Bearers, i \in ContactIds : GetContactById(t, i)
    \/ \E t \in Bearers, k \in KeyWords : FindContacts(t, k)
    \/ \E t \in Bearers, b \in ContactBodies : CreateContact(t, b)
    \/ \E t \in Bearers, i \in ContactIds, b \in ContactBodies : UpdateContact(t, i, b)
    \/ \E t \in Bearers, i \in ContactIds : DeleteContact(t, i)
    \/ \E t \in Bearers, l \in Limits, o \in Offsets : UpcomingBirthday(t, l, o)

SpecContacts == Init /\ [][NextContacts]_vars

-----------------------------------------------------------------------------
(* routers/users.py GET /users/profile, and the endpoints that take a      *)
(* bearer token run against one account while the clock advances           *)

GetProfile(token) ==
    LET cu == get_current_user(token) IN
    /\ IF ~cu.ok
       THEN /\ resp' = Response("get_current_user", cu.status, cu.detail, None)
            /\ UNCHANGED cache
       ELSE /\ resp' = Response("get_current_user", 200, "", UserReadSchema(cu.user))
            /\ cache' = cu.cache
    /\ UNCHANGED <<users, tokens, contacts, nextContactId, now, rotated, admitted, verified, req>>


NextBearer ==
    \/ \E p \in Passwords : Signup(FirstUser, p)
    \/ \E u \in Usernames, p \in Passwords : Login(u, p)
    \/ \E t \in Presentable : ConfirmedEmail(t)
    \/ \E t \in Presentable : RefreshToken(t)
    \/ \E t \in Presentable : GetProfile(t)
    \/ Tick

SpecBearer == Init /\ [][NextBearer]_vars

-----------------------------------------------------------------------------
(* routers/users.py PATCH /users/avatar.  The upload to Cloudinary answers *)
(* with the URL of the stored image; the URL carries the upload's version. *)

AvatarUrls == {"https://res.cloudinary.com/fastcontacts/v1",
               "https://res.cloudinary.com/fastcontacts/v2"}

update_avatar_url_unconfirms(username, url) ==
    LET user == get_user_by_username(username) IN
    IF user \in {None, MultipleResultsFound} THEN user
    ELSE [user EXCEPT !.avatar = url, !.confirmed = FALSE]

(* repositories/users.py update_avatar_url: the row after the update *)
update_avatar_url(username, url) ==
    LET user == get_user_by_username(username) IN
    IF user \in {None, MultipleResultsFound} THEN user
    ELSE [user EXCEPT !.avatar = url]

UploadAvatar(token, res_url) ==
    LET cu == get_current_user(token) IN
    /\ IF ~cu.ok
       THEN /\ resp' = Response("upload_avatar", cu.status, cu.detail, None)
            /\ UNCHANGED <<users, cache>>
       ELSE LET user == update_avatar_url(cu.user.username, res_url) IN
            IF user \in {None, MultipleResultsFound}
            THEN /\ resp' = Response("upload_avatar", 500, "Internal Server Error", None)
                 /\ cache' = cu.cache
                 /\ UNCHANGED users
            ELSE /\ users' = {IF u.id = user.id THEN user ELSE u : u \in users}
                 /\ cache' = cache_write(cu.cache, user.username, user)
                 /\ resp' = Response("upload_avatar", 200, "", UserReadSchema(user))
    /\ UNCHANGED <<tokens, contacts, nextContactId, now, rotated, admitted, verified, req>>

(* The endpoints that read or write the user cache, with the logins that   *)
(* hand out the access tokens, while the clock passes the life of an entry *)
NextCache ==
    \/ Signup(FirstUser, FirstPassword)
    \/ \E t \in Presentable : ConfirmedEmail(t)
    \/ \E u \in Usernames : Login(u, FirstPassword)
    \/ \E t \in Bearers : GetProfile(t)
    \/ \E t \in Bearers, url \in AvatarUrls : UploadAvatar(t, url)
    \/ TickRefresh

SpecCache == Init /\ [][NextCache]_vars

-----------------------------------------------------------------------------
(* GET /users/profile and PATCH /users/avatar command by command: Redis    *)
(* serves cache.set and cache.expire as two commands, and what other       *)
(* requests and the clock do falls between them.  A request can end        *)
(* between the two: the Redis connection fails under cache.expire, or the  *)
(* worker is stopped.  req[r] holds the locals of request r.               *)

(* get_current_user up to cache.set; on a cache hit the handler goes on *)
CurrentUserBegin(r, token, op, next) ==
    /\ req[r].pc = "idle"
    /\ LET cu == get_current_user(token) IN
       IF ~cu.ok
       THEN /\ resp' = Response(op, cu.status, cu.detail, None)
            /\ UNCHANGED <<req, cache>>
       ELSE IF cache[cu.user.username] # None
       THEN /\ req' = [req EXCEPT ![r] = next @@ [user |-> cu.user]]
            /\ UNCHANGED <<resp, cache>>
       ELSE /\ req' = [req EXCEPT ![r] =
                         [pc |-> "cache.set", op |-> op, key |-> cu.user.username,
                          user |-> cu.user, next |-> next @@ [user |-> cu.user]]]
            /\ UNCHANGED <<resp, cache>>
    /\ UNCHANGED <<users, tokens, contacts, nextContactId, now, rotated, admitted, verified>>

(* get_current_user, line 244, once the awaited SELECT has handed back the *)
(* row it read: cache.set(user_hash, pickle.dumps(user))                   *)
CacheSet(r) ==
    /\ req[r].pc = "cache.set"
    /\ cache' = cache_set(cache, req[r].key, req[r].user)
    /\ req' = [req EXCEPT ![r] =
                 [pc |-> "cache.expire", op |-> req[r].op, key |-> req[r].key,
                  next |-> req[r].next]]
    /\ UNCHANGED <<users, tokens, contacts, nextContactId, now, resp, rotated, admitted, verified>>

ProfileBegin(r, token) ==
    CurrentUserBegin(r, token, "get_current_user", [pc |-> "return", op |-> "get_current_user"])

UploadAvatarBegin(r, token, res_url) ==
    CurrentUserBegin(r, token, "upload_avatar",
                     [pc |-> "update_avatar", op |-> "upload_avatar", url |-> res_url])

(* cache.expire(key, 300) *)
CacheExpire(r) ==
    /\ req[r].pc = "cache.expire"
    /\ cache' = cache_expire(cache, req[r].key, CACHE_TTL)
    /\ req' = [req EXCEPT ![r] = req[r].next]
    /\ UNCHANGED <<users, tokens, contacts, nextContactId, now, resp, rotated, admitted, verified>>

(* the request ends before its cache.expire is served *)
Interrupted(r) ==
    /\ req[r].pc = "cache.expire"
    /\ req' = [req EXCEPT ![r] = Idle]
    /\ resp' = Response(req[r].op, 500, "Internal Server Error", None)
    /\ UNCHANGED <<users, tokens, contacts, nextContactId, cache, now, rotated, admitted, verified>>

(* upload_avatar, lines 68-69: update_avatar, then cache.set *)
UpdateAvatarSet(r) ==
    /\ req[r].pc = "update_avatar"
    /\ LET user == update_avatar_url(req[r].user.username, req[r].url) IN
       IF user \in {None, MultipleResultsFound}
       THEN /\ resp' = Response("upload_avatar", 500, "Internal Server Error", None)
            /\ req' = [req EXCEPT ![r] = Idle]
            /\ UNCHANGED <<users, cache>>
       ELSE /\ users' = {IF u.id = user.id THEN user ELSE u : u \in users}
            /\ cache' = cache_set(cache, user.username, user)
            /\ req' = [req EXCEPT ![r] =
                         [pc |-> "cache.expire", op |-> "upload_avatar",
                          key |-> user.username,
                          next |-> [pc |-> "return", op |-> "upload_avatar", user |-> user]]]
            /\ UNCHANGED resp
    /\ UNCHANGED <<tokens, contacts, nextContactId, now, rotated, admitted, verified>>

(* the handler returns the user *)
ReturnUser(r) ==
    /\ req[r].pc = "return"
    /\ resp' = Response(req[r].op, 200, "", UserReadSchema(req[r].user))
    /\ req' = [req EXCEPT ![r] = Idle]
    /\ UNCHANGED <<users, tokens, contacts, nextContactId, cache, now, rotated, admitted, verified>>

(* the clock observed at the start and when the entries written then are gone *)
TickCache == TickTo({CACHE_TTL})

NextCacheSteps ==
    \/ Signup(FirstUser, FirstPassword)
    \/ \E t \in Presentable : ConfirmedEmail(t)
    \/ Login(FirstUser, FirstPassword)
    \/ \E r \in Requests, t \in Bearers : ProfileBegin(r, t)
    \/ \E r \in Requests, t \in Bearers, url \in AvatarUrls : UploadAvatarBegin(r, t, url)
    \/ \E r \in Requests : CacheSet(r)
    \/ \E r \in Requests : CacheExpire(r)
    \/ \E r \in Requests : Interrupted(r)
    \/ \E r \in Requests : UpdateAvatarSet(r)
    \/ \E r \in Requests : ReturnUser(r)
    \/ TickCache

SpecCacheSteps == Init /\ [][NextCacheSteps]_vars

-----------------------------------------------------------------------------
(* login and refresh_token as the event loop runs them: a request gives up *)
(* control at every awaited database statement, and the statements of      *)
(* other requests run in between.  req[r] holds the locals of request r.   *)

(* login up to its first statement of update_token: SELECT users, the      *)
(* checks, the two tokens                                                  *)
LoginBegin(r, username, password) ==
    /\ req[r].pc = "idle"
    /\ LET user == get_user_by_username(username) IN
       IF user = MultipleResultsFound
       THEN /\ resp' = Response("login", 500, "Internal Server Error", None)
            /\ UNCHANGED req
       ELSE IF login_checks(user, password) # ""
       THEN /\ resp' = Response("login", 401, login_checks(user, password), None)
            /\ UNCHANGED req
       ELSE /\ req' = [req EXCEPT ![r] =
                         [pc |-> "update_token.select", op |-> "login", user |-> user,
                          new |-> create_refresh_token(user.username, now),
                          status |-> 200, detail |-> "",
                          body |-> TokenSchema(create_access_token(user.username, now),
                                               create_refresh_token(user.username, now))]]
            /\ UNCHANGED resp
    /\ UNCHANGED <<users, tokens, contacts, nextContactId, cache, now, rotated, admitted, verified>>

(* refresh_token up to get_refresh_token_by_user: decode, SELECT users *)
RefreshBegin(r, token) ==
    /\ req[r].pc = "idle"
    /\ LET decoded == decode_refresh_token(token, now) IN
       IF ~decoded.ok
       THEN /\ resp' = Response("refresh_token", decoded.status, decoded.detail, None)
            /\ UNCHANGED req
       ELSE LET user == get_user_by_username(decoded.username) IN
            IF user \in {None, MultipleResultsFound}
            THEN /\ resp' = Response("refresh_token", 500, "Internal Server Error", None)
                 /\ UNCHANGED req
            ELSE /\ req' = [req EXCEPT ![r] =
                              [pc |-> "get_refresh_token", user |-> user, token |-> token]]
                 /\ UNCHANGED resp
    /\ UNCHANGED <<users, tokens, contacts, nextContactId, cache, now, rotated, admitted, verified>>

(* refresh_token: SELECT tokens, the comparison, and on a match the new tokens *)
RefreshCompare(r) ==
    /\ req[r].pc = "get_refresh_token"
    /\ LET user == req[r].user
           row == get_refresh_token(tokens, user)
       IN
       IF row \in {None, MultipleResultsFound}
       THEN /\ resp' = Response("refresh_token", 500, "Internal Server Error", None)
            /\ req' = [req EXCEPT ![r] = Idle]
       ELSE IF row.refresh_token # req[r].token
       THEN /\ req' = [req EXCEPT ![r] =
                         [pc |-> "update_token.select", op |-> "refresh_token",
                          user |-> user, new |-> None,
                          status |-> 401, detail |-> "Invalid refresh token",
                          body |-> None]]
            /\ UNCHANGED resp
       ELSE /\ req' = [req EXCEPT ![r] =
                         [pc |-> "update_token.select", op |-> "refresh_token",
                          user |-> user,
                          new |-> create_refresh_token(user.username, now),
                          status |-> 200, detail |-> "",
                          body |-> TokenSchema(create_access_token(user.username, now),
                                               create_refresh_token(user.username, now))]]
            /\ UNCHANGED resp
    /\ UNCHANGED <<users, tokens, contacts, nextContactId, cache, now, rotated, admitted, verified>>

(* update_token, lines 72-74: SELECT tokens WHERE user_id *)
UpdateTokenSelect(r) ==
    /\ req[r].pc = "update_token.select"
    /\ LET token == scalar_one_or_none(TokenRowsOf(tokens, req[r].user)) IN
       IF token = MultipleResultsFound
       THEN /\ resp' = Response(req[r].op, 500, "Internal Server Error", None)
            /\ req' = [req EXCEPT ![r] = Idle]
       ELSE /\ req' = [req EXCEPT ![r] =
                         [req[r] EXCEPT !.pc = "update_token.commit"] @@ [token |-> token]]
            /\ UNCHANGED resp
    /\ UNCHANGED <<users, tokens, contacts, nextContactId, cache, now, rotated, admitted, verified>>

(* update_token, lines 75-80: UPDATE the row read, or INSERT a row; commit; *)
(* then the handler's response                                             *)
UpdateTokenCommit(r) ==
    /\ req[r].pc = "update_token.commit"
    /\ tokens' =
         IF req[r].token # None
         THEN {IF t.id = req[r].token.id THEN [t EXCEPT !.refresh_token = req[r].new]
                                         ELSE t : t \in tokens}
         ELSE tokens \cup {[id |-> NewTokenId(tokens), refresh_token |-> req[r].new,
                            user_id |-> req[r].user.id]}
    /\ resp' = Response(req[r].op, req[r].status, req[r].detail, req[r].body)
    /\ req' = [req EXCEPT ![r] = Idle]
    /\ UNCHANGED <<users, contacts, nextContactId, cache, now, rotated, admitted, verified>>

NextConc ==
    \/ \E u \in Usernames, p \in Passwords : Signup(u, p)
    \/ \E t \in Presentable : ConfirmedEmail(t)
    \/ \E r \in Requests, u \in Usernames, p \in Passwords : LoginBegin(r, u, p)
    \/ \E r \in Requests, t \in Presentable : RefreshBegin(r, t)
    \/ \E r \in Requests : RefreshCompare(r)
    \/ \E r \in Requests : UpdateTokenSelect(r)
    \/ \E r \in Requests : UpdateTokenCommit(r)

SpecConc == Init /\ [][NextConc]_vars

(* the same statements for one account while the clock advances, so that a *)
(* refresh token of an earlier second is presented next to the stored one  *)
TickSeconds == TickTo(0..MaxSec)

NextRevoke ==
    \/ Signup(FirstUser, FirstPassword)
    \/ \E t \in Presentable : ConfirmedEmail(t)
    \/ \E r \in Requests : LoginBegin(r, FirstUser, FirstPassword)
    \/ \E r \in Requests, t \in Presentable : RefreshBegin(r, t)
    \/ \E r \in Requests : RefreshCompare(r)
    \/ \E r \in Requests : UpdateTokenSelect(r)
    \/ \E r \in Requests : UpdateTokenCommit(r)
    \/ TickSeconds

SpecRevoke == Init /\ [][NextRevoke]_vars

-----------------------------------------------------------------------------
(* Claims *)

HasUser(username) == \E u \in users : u.username = username

(* C1: once a refresh_token call has succeeded presenting token T, every   *)
(* later refresh_token call presenting T is answered 401 and returns no    *)
(* tokens, whatever the time between the two calls.                        *)
C1_RotatedTokenRejected ==
    [][\A t \in rotated :
         refresh_token_route(t) => resp'.status = 401 /\ resp'.body = None]_vars

(* C2: in every reachable state, also one reached by login and            *)
(* refresh_token requests of one user that interleave, the tokens table    *)
(* holds at most one row per user.                                         *)
C2_OneTokenRowPerUser ==
    \A u \in users : Cardinality(TokenRowsOf(tokens, u)) <= 1

C5_DuplicateSignupRejected ==
    [][\A u \in Usernames, p \in Passwords :
         Signup(u, p) /\ HasUser(u)
         => /\ resp' = Response("signup", 409, "Account already exists", None)
            /\ resp'.background = {}
            /\ users' = users]_vars

C5_Witness ==
    /\ resp = Response("signup", 409, "Account already exists", None)
    /\ users # {}

(* Every step of the contact endpoints serves one request and leaves its   *)
(* response in resp, with the request it answered in resp.request.         *)

(* the ids of the user records a username names *)
IdsOf(username) == {u.id : u \in {x \in users : x.username = username}}

ReadOps == {"get_all_contacts", "get_contact_by_id", "find_contacts", "upcoming_birthday"}

Returned(r) ==
    IF r.op = "get_contact_by_id" THEN {r.body}
    ELSE IF r.op = "find_contacts" THEN r.body
    ELSE Range(r.body)

(* C6: every contact a read operation (list, get by id, key-word search,   *)
(* upcoming birthday) returns is owned by the user the request's token     *)
(* names, whether that user was resolved from the cache or the database.   *)
C6_ReadsScopedToRequester ==
    resp.op \in ReadOps /\ resp.status = 200
    => \A c \in Returned(resp) : c.user_id \in IdsOf(resp.request.sub)

C6_Witness ==
    /\ resp.op = "find_contacts"
    /\ resp.status = 200
    /\ resp.body # {}
    /\ \E c \in contacts : \A d \in resp.body : c.user_id # d.user_id
    /\ \A u \in users : cache[u.username] # None

(* C7: an update or a delete naming a contact id that no contact of the    *)
(* requesting user has leaves the contacts table as it is.                 *)
C7_ForeignIdLeavesContacts ==
    [][/\ resp'.op \in {"update_contact", "delete_contact"}
       /\ \/ resp'.request = None
          \/ ~\E c \in contacts : /\ c.id = resp'.request.contact_id
                                  /\ c.user_id \in IdsOf(resp'.request.sub)
       => contacts' = contacts]_vars

C7_Witness ==
    /\ resp.op = "delete_contact"
    /\ resp.request # None
    /\ \E c \in contacts : /\ c.id = resp.request.contact_id
                            /\ c.user_id \notin IdsOf(resp.request.sub)

(* C8: every stored contact has exactly one owning user; a contact is      *)
(* created with the requesting user as its owner; the owner of a contact   *)
(* never changes while the contact is stored.                              *)
C8_OneOwnerNeverChanges ==
    /\ [](\A c \in contacts : Cardinality({u \in users : u.id = c.user_id}) = 1)
    /\ [][/\ \A c \in contacts, d \in contacts' : c.id = d.id => d.user_id = c.user_id
          /\ resp'.op = "create_contact" /\ resp'.status = 201
             => /\ contacts' = contacts \cup {resp'.body}
                /\ resp'.body.user_id \in IdsOf(resp'.request.sub)
                /\ \A c \in contacts : c.id # resp'.body.id]_vars

C8_Witness ==
    /\ resp.op = "update_contact"
    /\ resp.status = 200
    /\ \E c, d \in contacts : c.user_id # d.user_id

(* C9: an endpoint that takes a bearer token answers 401 to a token that   *)
(* is not a valid, unexpired token of its scope: a protected endpoint to   *)
(* refresh tokens, scope-less tokens, badly signed or expired tokens and   *)
(* tokens whose subject has no user record; refresh_token to access        *)
(* tokens, scope-less tokens and badly signed or expired tokens.           *)
NotOfScope(t, scope) ==
    \/ JWTError(t, now)
    \/ "scope" \notin DOMAIN t.payload
    \/ t.payload.scope # scope

C9_BadBearerAnswered401 ==
    [][\A t \in Presentable :
         /\ GetProfile(t) /\ (NotOfScope(t, "access_token") \/ ~HasUser(t.payload.sub))
            => resp'.status = 401
         /\ RefreshToken(t) /\ NotOfScope(t, "refresh_token")
            => resp'.status = 401]_vars

(* C10: get by id, update and delete answer 404 when no contact with the   *)
(* given id belongs to the requesting user.                                *)
C10_MissingContactAnswered404 ==
    [][/\ resp'.op \in {"get_contact_by_id", "update_contact", "delete_contact"}
       /\ resp'.request # None
       /\ ~\E c \in contacts : /\ c.id = resp'.request.contact_id
                               /\ c.user_id \in IdsOf(resp'.request.sub)
       => resp'.status = 404]_vars

-----------------------------------------------------------------------------
(* signup as the event loop runs it: the handler gives up control at the   *)
(* SELECT of get_user_by_username and at the commit of create_user, and    *)
(* the statements of another signup run in between.                        *)

(* signup, lines 59-63: SELECT users WHERE username, the 409 *)
SignupBegin(r, username, password) ==
    /\ req[r].pc = "idle"
    /\ LET exist_user == get_user_by_username(username) IN
       IF exist_user = MultipleResultsFound
       THEN /\ resp' = Response("signup", 500, "Internal Server Error", None)
            /\ UNCHANGED req
       ELSE IF exist_user # None
       THEN /\ resp' = Response("signup", 409, "Account already exists", None)
            /\ UNCHANGED req
       ELSE /\ req' = [req EXCEPT ![r] =
                         [pc |-> "create_user", username |-> username,
                          password |-> get_password_hash(password)]]
            /\ UNCHANGED resp
    /\ UNCHANGED <<users, tokens, contacts, nextContactId, cache, now, rotated, admitted, verified>>

(* signup, lines 64-70: INSERT the user, commit, schedule the mail, answer *)
SignupCreate(r) ==
    /\ req[r].pc = "create_user"
    /\ LET new_user == create_user(req[r].username, req[r].password) IN
       /\ users' = users \cup {new_user}
       /\ resp' = [Response("signup", 201, "", UserReadSchema(new_user))
                    EXCEPT !.background = {send_verification_mail(new_user.username)}]
    /\ req' = [req EXCEPT ![r] = Idle]
    /\ UNCHANGED <<tokens, contacts, nextContactId, cache, now, rotated, admitted, verified>>

(* Signups that interleave, and the endpoints that look the user up *)
NextSignup ==
    \/ \E r \in Requests, u \in Usernames, p \in Passwords : SignupBegin(r, u, p)
    \/ \E r \in Requests : SignupCreate(r)
    \/ \E t \in Presentable : ConfirmedEmail(t)
    \/ \E u \in Usernames, p \in Passwords : Login(u, p)

SpecSignup == Init /\ [][NextSignup]_vars

-----------------------------------------------------------------------------
(* The rate limiter.  A route that lists Depends(RateLimiter(...)) among   *)
(* its dependencies runs the limiter before its handler.  The limiter      *)
(* counts the requests of a key in Redis: the first request of a key sets  *)
(* the counter to 1 with a life of `seconds`; while the counter lives, a   *)
(* request that would take it above `times` is answered 429.               *)

RateLimiter(c, key, times, seconds) ==
    IF c[key] # None /\ c[key].count + 1 > times
    THEN [admitted |-> FALSE, cache |-> c]
    ELSE IF c[key] # None
    THEN [admitted |-> TRUE, cache |-> [c EXCEPT ![key].count = @ + 1]]
    ELSE [admitted |-> TRUE,
          cache |-> [c EXCEPT ![key] = [count |-> 1, exp |-> now + seconds]]]

(* POST /api/auth/login from a client: the decorator of the route lists    *)
(* the limiter, so it runs first                                            *)
LoginFrom(client, username, password) ==
    LET limiter == RateLimiter(cache, LimiterKey(client, "/api/auth/login"),
                               RATE_TIMES, RATE_SECONDS) IN
    /\ cache' = limiter.cache
    /\ IF ~limiter.admitted
       THEN /\ resp' = Response("login", 429, "Too Many Requests", None)
            /\ UNCHANGED <<tokens, admitted>>
       ELSE /\ login_route(username, password)
            /\ admitted' = [admitted EXCEPT ![<<client, "login">>] = now]
    /\ UNCHANGED <<users, contacts, nextContactId, now, rotated, verified, req>>

(* POST /api/auth/signup from a client: the limiter is the default value   *)
(* of a parameter of the handler, not a dependency of the route, so no     *)
(* limiter runs                                                             *)
SignupFrom(client, username, password) ==
    /\ signup_route(username, password)
    /\ admitted' = [admitted EXCEPT ![<<client, "signup">>] = now]
    /\ UNCHANGED <<tokens, contacts, nextContactId, cache, now, rotated, verified, req>>

change_password_skipped(username, hashed) == users

(* repositories/users.py change_password *)
change_password(username, hashed) ==
    {IF u.username = username THEN [u EXCEPT !.password = hashed] ELSE u : u \in users}

(* POST /api/auth/reset_password: its effect on the users table and its response *)
reset_password_route(username, password, confirm_password) ==
    LET exist_user == get_user_by_username(username) IN
       IF exist_user = MultipleResultsFound
       THEN /\ resp' = Response("reset_password", 500, "Internal Server Error", None)
            /\ UNCHANGED users
       ELSE IF exist_user = None
       THEN /\ resp' = Response("reset_password", 409, "Account not found", None)
            /\ UNCHANGED users
       ELSE IF password # confirm_password
       THEN /\ resp' = Response("reset_password", 409, "Password is not correct", None)
            /\ UNCHANGED users
       ELSE /\ users' = change_password(username, get_password_hash(password))
            /\ resp' = Response("reset_password", 200, "You have changed your password!", None)

(* POST /api/auth/reset_password from a client: as for signup, no limiter runs *)
ResetPasswordFrom(client, username, password, confirm_password) ==
    /\ reset_password_route(username, password, confirm_password)
    /\ admitted' = [admitted EXCEPT ![<<client, "reset_password">>] = now]
    /\ UNCHANGED <<tokens, contacts, nextContactId, cache, now, rotated, verified, req>>

-----------------------------------------------------------------------------
(* The password reset: GET forgot_password/{username} mails a link with a *)
(* token, GET reset_password/{token} answers the link with a redirect,    *)
(* POST reset_password stores the new password.                            *)

(* background_tasks.add_task(email_service.send_request_to_reset_password, username, ...) *)
send_request_to_reset_password(username) ==
    [task |-> "send_request_to_reset_password", username |-> username]

ForgotPassword(username) ==
    LET user == get_user_by_username(username) IN
    /\ resp' = IF user = MultipleResultsFound
               THEN Response("forgot_password", 500, "Internal Server Error", None)
               ELSE IF user = None
               THEN Response("forgot_password", 400, "Email not found", None)
               ELSE [Response("forgot_password", 200,
                              "A password reset email was sent to your email address. Check your email.",
                              None)
                     EXCEPT !.background = {send_request_to_reset_password(username)}]
    /\ UNCHANGED <<users, tokens, contacts, nextContactId, cache, now, rotated, admitted, verified, req>>

(* GET reset_password/{token}: RedirectResponse answers 307 *)
GetResetPassword(token) ==
    LET decoded == get_email_from_token(token, now) IN
    /\ IF ~decoded.ok
       THEN /\ resp' = Response("reset_password_link", decoded.status, decoded.detail, None)
            /\ UNCHANGED verified
       ELSE
       LET user == get_user_by_username(decoded.email) IN
       IF user = MultipleResultsFound
       THEN /\ resp' = Response("reset_password_link", 500, "Internal Server Error", None)
            /\ UNCHANGED verified
       ELSE IF user = None
       THEN /\ resp' = Response("reset_password_link", 400, "Verification error", None)
            /\ UNCHANGED verified
       ELSE /\ resp' = Response("reset_password_link", 307, "/api/auth/reset_password", None)
            /\ verified' = verified \cup {decoded.email}
    /\ UNCHANGED <<users, tokens, contacts, nextContactId, cache, now, rotated, admitted, req>>

ResetPassword(username, password, confirm_password) ==
    /\ reset_password_route(username, password, confirm_password)
    /\ UNCHANGED <<tokens, contacts, nextContactId, cache, now, rotated, admitted, verified, req>>

(* The three endpoints of the password reset, for accounts that signed up *)
NextReset ==
    \/ \E u \in Usernames : Signup(u, FirstPassword)
    \/ \E u \in CacheKeys : ForgotPassword(u)
    \/ \E t \in Presentable : GetResetPassword(t)
    \/ \E u \in Usernames, p, q \in Passwords : ResetPassword(u, p, q)

SpecReset == Init /\ [][NextReset]_vars

(* Every endpoint that writes a user row or reads its confirmed flag, each *)
(* request served in one step                                              *)
NextAccount ==
    \/ \E u \in Usernames : Signup(u, FirstPassword)
    \/ \E t \in Presentable : ConfirmedEmail(t)
    \/ \E u \in Usernames, p \in Passwords : Login(u, p)
    \/ \E t \in Presentable : RefreshToken(t)
    \/ \E u \in Usernames, p, q \in Passwords : ResetPassword(u, p, q)
    \/ \E t \in Bearers, url \in AvatarUrls : UploadAvatar(t, url)

SpecAccount == Init /\ [][NextAccount]_vars

(* the clock observed inside and after the limiter's window *)
TickLimiter == TickTo(LimiterTimes)

(* The three routes that name the limiter.  The first client calls all of *)
(* them, for the first account where the route needs one; a second client *)
(* logs in as well, the limiter's counters being per client.              *)
NextLimiter ==
    \/ \E u \in Usernames : SignupFrom(FirstClient, u, FirstPassword)
    \/ \E t \in Presentable : ConfirmedEmail(t)
    \/ \E c \in Clients, p \in Passwords : LoginFrom(c, FirstUser, p)
    \/ \E p, q \in Passwords : ResetPasswordFrom(FirstClient, FirstUser, p, q)
    \/ TickLimiter

SpecLimiter == Init /\ [][NextLimiter]_vars

(* the entry cache.set and cache.expire leave for a username: a copy of    *)
(* the user's row as the step leaves it, living CACHE_TTL seconds          *)
FreshEntry(username) ==
    [user |-> CHOOSE u \in users' : u.username = username, exp |-> now + CACHE_TTL]

(* A step that leaves the clock alone serves one request and leaves its    *)
(* response in resp.                                                       *)

(* C11 as stated: the cache entry of a username is overwritten with the    *)
(* user's current record by every successful login of that user and by     *)
(* every avatar change of that user.                                       *)
C11_CacheOverwrittenByLoginAndAvatar ==
    [][now' = now =>
       /\ resp'.op = "login" /\ resp'.status = 200
          => cache'[resp'.body.access_token.payload.sub]
               = FreshEntry(resp'.body.access_token.payload.sub)
       /\ resp'.op = "upload_avatar" /\ resp'.status = 200
          => cache'[resp'.body.username] = FreshEntry(resp'.body.username)]_vars

(* C11 amended: every avatar change of a user overwrites the cache entry   *)
(* of the username with the user's current record; a protected endpoint    *)
(* that authenticates a user and finds no entry writes the user's current  *)
(* record, one that finds an entry leaves it; a login, successful or not,  *)
(* leaves the cache as it is.                                              *)
C11_CacheOverwrittenByAvatarNotLogin ==
    [][now' = now =>
       /\ resp'.op = "upload_avatar" /\ resp'.status = 200
          => cache' = [cache EXCEPT ![resp'.body.username] = FreshEntry(resp'.body.username)]
       /\ resp'.op = "get_current_user" /\ resp'.status = 200
          => cache' = IF cache[resp'.body.username] = None
                      THEN [cache EXCEPT ![resp'.body.username] =
                                           FreshEntry(resp'.body.username)]
                      ELSE cache
       /\ resp'.op = "login" => cache' = cache]_vars

(* an avatar change has replaced an entry that held the previous avatar,   *)
(* after a login that left the entry alone                                 *)
C11_Witness ==
    /\ resp.op = "upload_avatar"
    /\ resp.status = 200
    /\ resp.body.avatar = "https://res.cloudinary.com/fastcontacts/v2"
    /\ cache[resp.body.username] # None
    /\ cache[resp.body.username].user.avatar = resp.body.avatar
    /\ cache[resp.body.username].exp > CACHE_TTL

(* C12: in every reachable state, also between the commands of a cache     *)
(* write and after a request has ended between them, every entry of the    *)
(* user cache has a time-to-live, of at most 300 s.                        *)
C12_CacheEntriesExpire ==
    \A k \in CacheKeys :
        cache[k] # None => cache[k].exp # NO_EXPIRY /\ cache[k].exp <= now + CACHE_TTL

(* C13: the response of a successful signup holds the username and the     *)
(* avatar of the new user and no password field.                           *)
C13_SignupResponseHidesPassword ==
    [][now' = now /\ resp'.op = "signup" /\ resp'.status = 201
       => /\ \E u \in users' \ users : /\ resp'.body.username = u.username
                                        /\ resp'.body.avatar = u.avatar
          /\ "password" \notin DOMAIN resp'.body]_vars

(* C14: a signup naming a username without a user record answers 201, adds *)
(* one user record with that username, confirmed = false, the default      *)
(* avatar and the hash of the password, leaves the other records as they   *)
(* are and schedules one verification mail to the username.                *)
C14_SignupCreatesUnconfirmedUser ==
    [][\A u \in Usernames, p \in Passwords :
         Signup(u, p) /\ ~HasUser(u)
         => /\ resp'.status = 201
            /\ \E n \in users' :
                  /\ n \notin users
                  /\ users' = users \cup {n}
                  /\ \A o \in users : o.id # n.id
                  /\ n.username = u
                  /\ n.confirmed = FALSE
                  /\ n.avatar = DEFAULT_AVATAR
                  /\ n.password = get_password_hash(p)
                  /\ verify_password(p, n.password)
                  /\ \A q \in Passwords \ {p} : ~verify_password(q, n.password)
            /\ resp'.background = {send_verification_mail(u)}]_vars

(* a second account has signed up beside a confirmed one *)
C14_Witness ==
    /\ resp.op = "signup"
    /\ resp.status = 201
    /\ \E o \in users : o.confirmed /\ o.username # resp.body.username
    /\ \E n \in users : ~n.confirmed /\ n.username = resp.body.username

(* the requests in flight that are inside update_token *)
InUpdateToken(r) == req[r].pc \in {"update_token.select", "update_token.commit"}

(* C15: a login of a confirmed user with the password given at signup      *)
(* passes the checks of login, is answered 200 with an access token, a     *)
(* refresh token and a token type, and the refresh token returned is the   *)
(* one then stored for the user.                                           *)
C15_ConfirmedLoginSucceeds ==
    [][/\ \A r \in Requests, u \in Usernames, p \in Passwords :
            /\ LoginBegin(r, u, p)
            /\ \E usr \in users : /\ usr.username = u
                                   /\ usr.confirmed
                                   /\ usr.password = get_password_hash(p)
            => InUpdateToken(r)' /\ req'[r].op = "login"
       /\ \A r \in Requests :
            /\ InUpdateToken(r)
            /\ req[r].op = "login"
            /\ req'[r] = Idle
            => /\ resp'.status = 200
               /\ DOMAIN resp'.body = {"access_token", "refresh_token", "token_type"}
               /\ \E row \in tokens' : /\ row.user_id = req[r].user.id
                                         /\ row.refresh_token = resp'.body.refresh_token]_vars

(* C16: a refresh_token call that finds its token stored for the user is   *)
(* answered 200 with a new access token and a new refresh token, and the   *)
(* refresh token returned is the one stored for the user afterwards.       *)
C16_StoredRefreshTokenAccepted ==
    [][\A r \in Requests :
         /\ /\ req[r].pc = "get_refresh_token"
            /\ \E row \in TokenRowsOf(tokens, req[r].user) : row.refresh_token = req[r].token
            /\ req'[r] # req[r]
            => /\ InUpdateToken(r)'
               /\ req'[r].status = 200
               /\ req'[r].body = TokenSchema(create_access_token(req[r].user.username, now),
                                             create_refresh_token(req[r].user.username, now))
         /\ /\ InUpdateToken(r)
            /\ req[r].op = "refresh_token"
            /\ req[r].status = 200
            /\ req'[r] = Idle
            => /\ resp'.status = 200
               /\ resp'.body = req[r].body
               /\ \E row \in TokenRowsOf(tokens', req[r].user) :
                     row.refresh_token = resp'.body.refresh_token]_vars

(* a request of the client to the route reached the handler less than    *)
(* RATE_SECONDS ago                                                        *)
InWindow(client, route) ==
    /\ admitted[<<client, route>>] # NEVER
    /\ now - admitted[<<client, route>>] < RATE_SECONDS

(* the limiter answered: 429, and neither users nor tokens changed *)
RejectedByLimiter == resp'.status = 429 /\ users' = users /\ tokens' = tokens

(* C17: each of signup, login and POST reset_password lets at most one     *)
(* request of a client through in any 20 seconds: a further request of the *)
(* client inside the window is answered by the limiter (429) and changes   *)
(* neither users nor tokens.                                               *)
C17_OneRequestPerWindow ==
    [][\A c \in Clients, u \in Usernames, p \in Passwords, q \in Passwords :
         /\ SignupFrom(c, u, p) /\ InWindow(c, "signup") => RejectedByLimiter
         /\ LoginFrom(c, u, p) /\ InWindow(c, "login") => RejectedByLimiter
         /\ ResetPasswordFrom(c, u, p, q) /\ InWindow(c, "reset_password") => RejectedByLimiter]_vars

(* the birthday (month and day of the date of birth) falls on one of the  *)
(* days from `from` to `from + days`                                       *)
BirthdayWithin(birthday, from, days) ==
    \E d \in from..(from + days) : YearDay(d) = YearDay(birthday)

(* C18: get_upcoming_birthday returns, within offset and limit, exactly    *)
(* the requesting user's contacts whose birthday -- the month and day of   *)
(* the date of birth, whatever its year -- falls between today and today   *)
(* + 7 days.                                                               *)
C18_UpcomingBirthdayByMonthAndDay ==
    [][\A t \in Bearers, l \in Limits, o \in Offsets :
         UpcomingBirthday(t, l, o) /\ resp'.status = 200
         => resp'.body =
              OffsetLimit({c \in contacts :
                              /\ c.user_id = resp'.request.user_id
                              /\ BirthdayWithin(c.birthday, today, UPCOMING_DAYS)},
                          o, l)]_vars

(* the text contains the key word as a case-insensitive substring *)
Contains(str, key_word) ==
    \E i \in 1..(Len(str) - Len(key_word) + 1) :
        LOWER(SubSeq(str, i, i + Len(key_word) - 1)) = LOWER(key_word)

(* C19: find_contacts returns exactly the requesting user's contacts whose *)
(* name, surname or email contains key_word as a case-insensitive          *)
(* substring, each once, and nothing when no contact matches.              *)
C19_FindBySubstring ==
    [][\A t \in Bearers, k \in KeyWords :
         FindContacts(t, k) /\ resp'.status = 200
         => resp'.body =
              {c \in contacts :
                  /\ c.user_id = resp'.request.user_id
                  /\ \/ Contains(c.name, k)
                     \/ Contains(c.surname, k)
                     \/ Contains(c.email, k)}]_vars

(* C20: confirmed_email is idempotent.  With a token that decodes (the   *)
(* answer then carries the email the token named) and whose subject is a  *)
(* user, the call on the unconfirmed user sets                            *)
(* confirmed and answers 'Email confirmed'; a call on a confirmed user    *)
(* answers 'Your email is already confirmed' and changes nothing, and no  *)
(* step takes a confirmation back, so that every later call is of this    *)
(* kind; with a subject that has no user record the answer is 400         *)
(* 'Verification error' and nothing changes.                              *)
C20_ConfirmedEmailIdempotent ==
    [][/\ resp'.op = "confirmed_email" /\ resp'.request # None /\ now' = now
          => LET user == get_user_by_username(resp'.request.email) IN
             /\ user # MultipleResultsFound
             /\ tokens' = tokens /\ contacts' = contacts
             /\ IF user = None
                THEN /\ resp'.status = 400
                     /\ resp'.detail = "Verification error"
                     /\ users' = users
                ELSE IF user.confirmed
                THEN /\ resp'.status = 200
                     /\ resp'.detail = "Your email is already confirmed"
                     /\ users' = users
                ELSE /\ resp'.status = 200
                     /\ resp'.detail = "Email confirmed"
                     /\ users' = (users \ {user}) \cup {[user EXCEPT !.confirmed = TRUE]}
       /\ \A u \in users : u.confirmed => \E v \in users' : v.id = u.id /\ v.confirmed
      ]_vars

(* a call found the user confirmed by an earlier call *)
C20_Witness ==
    /\ resp.op = "confirmed_email"
    /\ resp.detail = "Your email is already confirmed"
    /\ \E u \in users : u.confirmed

(* C21: update_token(user, t) overwrites the refresh token of the user's  *)
(* token row in place, adding no row, when it finds the user has a row;   *)
(* adds exactly one row holding t when it finds none; goes on to its one  *)
(* commit in both cases; and leaves the rows of the other users as they   *)
(* are.                                                                    *)
C21_UpdateTokenOverwritesOrAdds ==
    [][\A r \in Requests :
         /\ UpdateTokenSelect(r)
            => /\ req'[r].pc = "update_token.commit"
               /\ (req'[r].token = None) = (TokenRowsOf(tokens, req[r].user) = {})
         /\ UpdateTokenCommit(r)
            => LET user == req[r].user IN
               /\ {t \in tokens' : t.user_id # user.id} = {t \in tokens : t.user_id # user.id}
               /\ IF req[r].token # None
                  THEN \E row \in TokenRowsOf(tokens, user) :
                         /\ row.id = req[r].token.id
                         /\ tokens' = (tokens \ {row})
                                        \cup {[row EXCEPT !.refresh_token = req[r].new]}
                  ELSE /\ Cardinality(tokens') = Cardinality(tokens) + 1
                       /\ \E row \in tokens' \ tokens :
                             row.user_id = user.id /\ row.refresh_token = req[r].new]_vars

(* what POST reset_password does when it refuses: 409 with the detail,   *)
(* no password changed                                                     *)
ResetRefused(detail) ==
    /\ resp' = Response("reset_password", 409, detail, None)
    /\ users' = users

(* the users table after the password of usr alone became the hash of password *)
PasswordReplaced(usr, password) ==
    (users \ {usr}) \cup {[usr EXCEPT !.password = get_password_hash(password)]}

(* C22: POST reset_password answers 409 'Account not found' for a         *)
(* username without a user record and 409 'Password is not correct' when  *)
(* password and confirm_password differ, and changes no password then;    *)
(* otherwise it replaces the password of that user alone by the hash of   *)
(* the new password, after which login succeeds with the new password and *)
(* fails with the old one (where the two differ).                          *)
C22_ResetThenLoginSucceeds ==
    [][\A c \in Clients, u \in Usernames, p \in Passwords, q \in Passwords :
         ResetPasswordFrom(c, u, p, q)
         => IF ~HasUser(u) THEN ResetRefused("Account not found")
            ELSE IF p # q THEN ResetRefused("Password is not correct")
            ELSE \E usr \in users :
                   /\ usr.username = u
                   /\ users' = PasswordReplaced(usr, p)
                   /\ resp'.status = 200
                   /\ (login_checks(get_user_by_username(u), p) = "")'
                   /\ \A old \in Passwords \ {p} :
                        usr.password = get_password_hash(old)
                        => (login_checks(get_user_by_username(u), old) # "")']_vars

(* C22 as the code has it: the refusals and the replacement as above;     *)
(* after the replacement the checks of login answer a confirmed user by   *)
(* the new password alone -- they pass with it and answer 'Invalid        *)
(* password' with any other -- and still answer an unconfirmed user       *)
(* 'Email not confirmed'; a login the limiter lets through is answered    *)
(* accordingly.                                                            *)
C22_ResetReplacesPassword ==
    [][/\ resp'.op = "reset_password" =>
          \A c \in Clients, u \in Usernames, p \in Passwords, q \in Passwords :
              ResetPasswordFrom(c, u, p, q)
              => /\ tokens' = tokens
                 /\ IF ~HasUser(u) THEN ResetRefused("Account not found")
                    ELSE IF p # q THEN ResetRefused("Password is not correct")
                    ELSE \E usr \in users :
                           /\ usr.username = u
                           /\ users' = PasswordReplaced(usr, p)
                           /\ resp'.status = 200
                           /\ \A pw \in Passwords :
                                (login_checks(get_user_by_username(u), pw))'
                                  = IF ~usr.confirmed THEN "Email not confirmed"
                                    ELSE IF pw = p THEN "" ELSE "Invalid password"
       /\ resp'.op = "login" /\ resp'.status # 429 =>
          \A c \in Clients, u \in Usernames, p \in Passwords :
              LoginFrom(c, u, p)
              => \A usr \in users :
                   usr.username = u /\ usr.confirmed
                   => IF usr.password = get_password_hash(p)
                      THEN resp'.detail # "Invalid password"
                      ELSE resp' = Response("login", 401, "Invalid password", None)]_vars

(* a login was answered 200 for the password a reset had put in place of  *)
(* the one given at signup                                                 *)
C22_Witness ==
    /\ resp.op = "login" /\ resp.status = 200
    /\ \E usr \in users :
         /\ usr.username = resp.body.access_token.payload.sub
         /\ usr.password = get_password_hash("wrong_password")

(* the contact with the id and the owner of `old` and the seven data     *)
(* fields of the body                                                      *)
Replaced(old, body) ==
    [id |-> old.id, user_id |-> old.user_id,
     name |-> body.name, surname |-> body.surname, email |-> body.email,
     phone |-> body.phone, birthday |-> body.birthday, notes |-> body.notes,
     is_favorite |-> body.is_favorite]

(* C23: the update of a contact the requester owns replaces its seven     *)
(* data fields by those of the body, keeps its id and its owner, commits  *)
(* once and refreshes once, returns the contact as updated and leaves     *)
(* every other contact as it is.                                           *)
C23_UpdateReplacesDataFields ==
    [][resp'.op = "update_contact" /\ resp'.request # None =>
         \A old \in contacts, user \in users :
            /\ old.id = resp'.request.contact_id
            /\ user.id = resp'.request.user_id
            /\ old.user_id = user.id
            => LET body == resp'.request.body
                   done == update(old.id, body, user)
               IN /\ resp'.status = 200
                  /\ resp'.body = Replaced(old, body)
                  /\ contacts' = (contacts \ {old}) \cup {Replaced(old, body)}
                  /\ done.commit = 1 /\ done.refresh = 1]_vars

(* an update changed the notes of a contact of its requester while a      *)
(* contact with other notes is stored                                      *)
C23_Witness ==
    /\ resp.op = "update_contact"
    /\ resp.status = 200
    /\ resp.body \in contacts
    /\ \E c \in contacts : c.id # resp.body.id /\ c.notes # resp.body.notes

(* C24: the delete of a contact the requester owns removes that contact  *)
(* alone, with one delete and one commit, and returns it; every other     *)
(* contact, of this user and of the others, stays as it is; a get by the  *)
(* same id for the same user then finds nothing.                           *)
C24_DeleteRemovesOneContact ==
    [][resp'.op = "delete_contact" /\ resp'.request # None =>
         \A old \in contacts, user \in users :
            /\ old.id = resp'.request.contact_id
            /\ user.id = resp'.request.user_id
            /\ old.user_id = user.id
            => LET done == delete(old.id, user) IN
               /\ resp'.body = old
               /\ contacts' = contacts \ {old}
               /\ done.delete = 1 /\ done.commit = 1
               /\ (get_by_id(old.id, user) = None)']_vars

(* a delete returned a contact of its requester, and another contact of  *)
(* the requester is still stored                                           *)
C24_Witness ==
    /\ resp.op = "delete_contact"
    /\ resp.body # None
    /\ resp.body \notin contacts
    /\ \E c \in contacts : c.user_id = resp.body.user_id

(* C25: in every reachable state, also one reached by two signup         *)
(* requests for one username that interleave between the existence check  *)
(* and the insert, at most one user record exists per username.           *)
C25_OneUserPerUsername ==
    \A u \in Usernames : Cardinality({usr \in users : usr.username = u}) <= 1

(* C26: every change of the stored password of a user is preceded by a   *)
(* GET reset_password/{token} that answered a valid token whose subject   *)
(* is the user with its redirect.                                          *)
C26_PasswordChangeNeedsResetToken ==
    [][\A usr \in users, new \in users' :
         usr.id = new.id /\ new.password # usr.password
         => usr.username \in verified]_vars

(* an upload_avatar request of the user is in flight *)
Uploading(username) ==
    \E r \in Requests :
        /\ req[r].pc # "idle"
        /\ req[r].op = "upload_avatar"
        /\ IF req[r].pc \in {"cache.set", "cache.expire"} THEN req[r].key = username
           ELSE req[r].user.username = username

(* C27: once upload_avatar for a user has completed (the last answer is  *)
(* the 200 of an upload of the user and no other upload of the user is in *)
(* flight), a cache entry of the user holds the avatar stored in the      *)
(* database, also when a get_current_user request of the user runs        *)
(* interleaved with the upload.                                            *)
C27_CacheHoldsStoredAvatar ==
    \A u \in users :
        /\ resp.op = "upload_avatar" /\ resp.status = 200
        /\ resp.body.username = u.username
        /\ ~Uploading(u.username)
        /\ cache[u.username] # None
        => cache[u.username].user.avatar = u.avatar

(* C28: a refresh_token call whose validly signed refresh token is not   *)
(* the one stored for the user sets the stored token to null and answers  *)
(* 401; from then on the stored token stays null, and every refresh_token *)
(* call of the user is rejected by the comparison, until a login of the   *)
(* user stores a token again.                                              *)
C28_MismatchRevokesUntilLogin ==
    [][/\ \A r \in Requests :
            /\ UpdateTokenCommit(r) /\ req[r].op = "refresh_token" /\ req[r].status = 401
               => /\ resp'.status = 401
                  /\ \E row \in TokenRowsOf(tokens', req[r].user) : row.refresh_token = None
            /\ RefreshCompare(r) /\ TokenRowsOf(tokens, req[r].user) = {[id |-> 1, user_id |-> req[r].user.id, refresh_token |-> None]}
               => req'[r].pc = "update_token.select" /\ req'[r].status = 401
       /\ \A row \in tokens, new \in tokens' :
            row.id = new.id /\ row.refresh_token = None /\ new.refresh_token # None
            => resp'.op = "login"]_vars

(* what refresh_token does with a token: TRUE when it answers 200 *)
Accepted(token) ==
    /\ decode_refresh_token(token, now).ok
    /\ \E u \in users :
          /\ u.username = decode_refresh_token(token, now).username
          /\ \E row \in TokenRowsOf(tokens, u) : row.refresh_token = token

(* C29: after a successful login of a user, the refresh token that was     *)
(* stored for the user before it, issued by an earlier login or refresh,   *)
(* is no longer accepted by refresh_token.                                 *)
C29_LoginReplacesRefreshToken ==
    [][now' = now /\ resp'.op = "login" /\ resp'.status = 200 =>
         \A u \in users, row \in tokens :
            /\ u.username = resp'.body.refresh_token.payload.sub
            /\ row.user_id = u.id
            /\ row.refresh_token # None
            => ~Accepted(row.refresh_token)']_vars

(* C30: the confirmed flag of a user record is false when the record is   *)
(* created, turns true only in a confirmed_email request whose token names *)
(* that user, and no request (login, refresh_token, reset_password,        *)
(* upload_avatar, a repeated signup) removes the record or turns the flag  *)
(* back to false.                                                          *)
C30_ConfirmedIsMonotonic ==
    [][/\ \A u \in users :
            /\ \E v \in users' : v.id = u.id
            /\ \A v \in users' :
                  v.id = u.id =>
                     /\ u.confirmed => v.confirmed
                     /\ ~u.confirmed /\ v.confirmed =>
                           /\ resp'.op = "confirmed_email"
                           /\ resp'.request # None
                           /\ resp'.request.email = u.username
       /\ \A v \in users' : v.id \notin {u.id : u \in users} => ~v.confirmed]_vars

(* a confirmed user whose password and avatar were changed and who is      *)
(* logged in, next to a user who never confirmed, after a repeated signup  *)
C30_Witness ==
    /\ resp.op = "signup" /\ resp.status = 409
    /\ \E u, v \in users :
          /\ u.confirmed /\ ~v.confirmed
          /\ u.avatar # DEFAULT_AVATAR
          /\ u.password # get_password_hash(FirstPassword)
          /\ TokenRowsOf(tokens, u) # {}

====
